---- MODULE Spec2Model ----
(***************************************************************************)
(* Order submission pipeline of the BS MONTERS checkout:                   *)
(*   POST /api/submit-order  (route handler)                               *)
(*   safeValidateOrder / OrderSchema  (lib/types.ts)                       *)
(*   withRetry  (lib/utils)                                                *)
(*   saveOrder / checkDuplicateOrder  (lib/services/googleSheets)          *)
(*   sendOrderEmail  (lib/services/email.ts)                               *)
(*                                                                         *)
(* Strings are sequences of one-character strings, so that trimming,       *)
(* length checks and pattern matches are computed.  The spreadsheet is a   *)
(* sequence of rows: row i of the sequence is row i of the first sheet.    *)
(* Requests are served one after the other (non-overlapping submissions);  *)
(* inside one request the two integrations interleave freely.              *)
(***************************************************************************)
EXTENDS Integers, Sequences, FiniteSets, TLC

VARIABLES
  env,          \* process.env: the configuration flags and credentials
  requestBody,  \* the parsed body of the request being served (`body` in POST)
  ledger,       \* the first sheet of the spreadsheet, row by row
  pc,           \* position of the POST handler
  orderData,    \* validation.data of the request being served
  sheetRun,     \* withRetry frame of saveOrder
  sheetResult,  \* settled result of saveOrder as seen by Promise.allSettled
  emailRun,     \* withRetry frame of sendOrderEmail
  emailResult,  \* settled result of sendOrderEmail
  response,     \* the NextResponse produced for the request being served
  trace,        \* what the request being served has invoked so far
  served,       \* number of requests received so far
  prev200       \* clientRequestIds of earlier requests answered 200

vars == <<env, requestBody, ledger, pc, orderData, sheetRun, sheetResult, emailRun,
          emailResult, response, trace, served, prev200>>

(***************************************************************************)
(* Bounds of the model.                                                    *)
(***************************************************************************)
MaxRequests == 2

(***************************************************************************)
(* Strings.                                                                *)
(***************************************************************************)
Digits == {"0", "1", "2", "3", "4", "5", "6", "7", "8", "9"}
Whitespace == {" "}

RECURSIVE TrimStart(_)
TrimStart(s) ==
  IF s # <<>> /\ Head(s) \in Whitespace THEN TrimStart(Tail(s)) ELSE s

RECURSIVE TrimEnd(_)
TrimEnd(s) ==
  IF s # <<>> /\ s[Len(s)] \in Whitespace
  THEN TrimEnd(SubSeq(s, 1, Len(s) - 1))
  ELSE s

\* String.prototype.trim
Trim(s) == TrimEnd(TrimStart(s))

AllDigits(s) == \A i \in 1..Len(s) : s[i] \in Digits

\* ALGERIAN_PHONE_REGEX = /^(\+213|0)[5-7]\d{8}$/
PhoneDigitsAfterPrefix == 8
MatchesAlgerianPhone(s) ==
  LET rest(k) == SubSeq(s, k + 1, Len(s))
      mobile(r) == /\ Len(r) = 1 + PhoneDigitsAfterPrefix
                   /\ r[1] \in {"5", "6", "7"}
                   /\ AllDigits(r)
  IN \/ /\ Len(s) >= 4
        /\ SubSeq(s, 1, 4) = <<"+", "2", "1", "3">>
        /\ mobile(rest(4))
     \/ /\ Len(s) >= 1
        /\ s[1] = "0"
        /\ mobile(rest(1))

(***************************************************************************)
(* Sample strings of the request bodies.                                   *)
(***************************************************************************)
T1 == <<"a", "1">>
T2 == <<"b", "2">>
NotAUuid == <<"x">>
\* crypto.randomUUID() of the n-th request: a token no other call returns
\* and no client sends
DigitOf == <<"1", "2", "3", "4", "5", "6", "7", "8", "9">>
RandomUuid(n) == <<"r", DigitOf[n]>>
\* The strings of the sample space that match zod's uuid pattern.
UuidStrings == {T1, T2} \cup {RandomUuid(n) : n \in 1..Len(DigitOf)}

NameAli == <<"A", "l", "i">>
NamePadded == <<" ", "A", " ">>
NameShort == <<"A">>
PhoneDomestic == <<"0", "5", "5", "5", "1", "2", "3", "4", "5", "6">>
PhoneIntl == <<"+", "2", "1", "3", "5", "5", "5", "1", "2", "3", "4", "5", "6">>
PhoneLandline == <<"0", "4", "5", "5", "1", "2", "3", "4", "5", "6">>
Wilaya == <<"W", "a">>
Baladiya == <<"B", "a">>
ModelNo == <<"M", "7">>

(***************************************************************************)
(* OrderSchema (lib/types.ts).  A body is a JSON object: a record whose    *)
(* domain is the set of keys present.  Checks run in the order zod runs    *)
(* them: the string checks on the raw value, then the trim transform.      *)
(***************************************************************************)
NameMin == 2
NameMax == 100
WilayaMin == 2
BaladiyaMin == 1
BaladiyaArMin == 2
ModelMin == 1
ModelMax == 10
PriceMax == 1000000

Has(body, k) == k \in DOMAIN body

Issue(field, message) == [path |-> field, message |-> message]

\* A JSON number n is held as floor(n) under its key; when n is not an
\* integer its first decimal is held under a companion key.
TenthsKey == "watchModelId.tenths"
Tenths(body) == IF Has(body, TenthsKey) THEN body[TenthsKey] ELSE 0

\* Variant of the watchModelId checks without .int()
WatchModelIdIssuesNoInt(k, floor, tenths) ==
  (IF floor < ModelMin THEN <<Issue(k, "choose a model")>> ELSE <<>>)
    \o (IF floor > ModelMax \/ (floor = ModelMax /\ tenths # 0)
        THEN <<Issue(k, "invalid model")>> ELSE <<>>)

\* z.number().int().min(1).max(10): every check runs, in this order
WatchModelIdIssues(k, floor, tenths) ==
  (IF tenths # 0 THEN <<Issue(k, "expected integer")>> ELSE <<>>)
    \o (IF floor < ModelMin THEN <<Issue(k, "choose a model")>> ELSE <<>>)
    \o (IF floor > ModelMax \/ (floor = ModelMax /\ tenths # 0)
        THEN <<Issue(k, "invalid model")>> ELSE <<>>)

\* z.number().positive().max(1000000)
TotalPriceIssues(k, n) ==
  (IF n <= 0 THEN <<Issue(k, "price must be positive")>> ELSE <<>>)
    \o (IF n > PriceMax THEN <<Issue(k, "price too large")>> ELSE <<>>)

\* issues of one key, in zod's order; <<>> when the key is accepted
FieldIssues(body, k) ==
  IF k = "clientRequestId" THEN
    IF Has(body, k) /\ body[k] \notin UuidStrings
    THEN <<Issue(k, "invalid order id")>> ELSE <<>>
  ELSE IF k = "wilayaId" THEN
    IF Has(body, k) /\ body[k] <= 0
    THEN <<Issue(k, "too small")>> ELSE <<>>
  ELSE IF ~Has(body, k) THEN <<Issue(k, "required")>>
  ELSE IF k = "fullName" THEN
    IF Len(body[k]) < NameMin THEN <<Issue(k, "name too short")>>
    ELSE IF Len(body[k]) > NameMax THEN <<Issue(k, "name too long")>>
    ELSE <<>>
  ELSE IF k = "phone" THEN
    IF ~MatchesAlgerianPhone(body[k]) THEN <<Issue(k, "invalid phone")>>
    ELSE <<>>
  ELSE IF k = "wilayaNameAr" THEN
    IF Len(body[k]) < WilayaMin THEN <<Issue(k, "wilaya required")>> ELSE <<>>
  ELSE IF k = "baladiya" THEN
    IF Len(body[k]) < BaladiyaMin THEN <<Issue(k, "baladiya required")>>
    ELSE <<>>
  ELSE IF k = "baladiyaNameAr" THEN
    IF Len(body[k]) < BaladiyaArMin
    THEN <<Issue(k, "baladiya name required")>> ELSE <<>>
  ELSE IF k = "watchModelId" THEN WatchModelIdIssues(k, body[k], Tenths(body))
  ELSE IF k = "deliveryOption" THEN
    IF body[k] \notin {"office", "home"}
    THEN <<Issue(k, "choose a delivery option")>> ELSE <<>>
  ELSE IF k = "totalPrice" THEN TotalPriceIssues(k, body[k])
  ELSE <<>>

\* the keys of z.object({...}), in declaration order
SchemaKeys ==
  <<"clientRequestId", "fullName", "phone", "wilayaId", "wilayaNameAr",
    "baladiya", "baladiyaNameAr", "watchModelId", "deliveryOption",
    "totalPrice">>

\* Variant of the object parser that stops at the first key with an issue
RECURSIVE CollectFirstIssue(_, _)
CollectFirstIssue(body, i) ==
  IF i > Len(SchemaKeys) THEN <<>>
  ELSE IF FieldIssues(body, SchemaKeys[i]) # <<>>
  THEN FieldIssues(body, SchemaKeys[i])
  ELSE CollectFirstIssue(body, i + 1)

RECURSIVE CollectIssues(_, _)
CollectIssues(body, i) ==
  IF i > Len(SchemaKeys) THEN <<>>
  ELSE FieldIssues(body, SchemaKeys[i]) \o CollectIssues(body, i + 1)

\* The parsed object: keys outside the schema are stripped, strings are
\* trimmed, an absent clientRequestId gets crypto.randomUUID().
OrderSchemaOutput(body, fresh) ==
  LET base ==
        [clientRequestId |->
           IF Has(body, "clientRequestId") THEN body.clientRequestId ELSE fresh,
         fullName |-> Trim(body.fullName),
         phone |-> Trim(body.phone),
         wilayaNameAr |-> Trim(body.wilayaNameAr),
         baladiya |-> Trim(body.baladiya),
         baladiyaNameAr |-> Trim(body.baladiyaNameAr),
         watchModelId |-> body.watchModelId,
         deliveryOption |-> body.deliveryOption,
         totalPrice |-> body.totalPrice]
  IN IF Has(body, "wilayaId")
     THEN [k \in DOMAIN base \cup {"wilayaId"} |->
             IF k = "wilayaId" THEN body.wilayaId ELSE base[k]]
     ELSE base

\* A JSON value that is not an object: null, an array, a string, a number
JsonValue(kind) == [nonObject |-> kind]
IsJsonObject(body) == "nonObject" \notin DOMAIN body

\* z.object on a value that is not an object: one invalid_type issue whose
\* path is empty, so that path.join('.') is the empty string
RootPath == ""

\* safeValidateOrder
safeValidateOrder(body, fresh) ==
  LET issues == IF IsJsonObject(body) THEN CollectIssues(body, 1)
                ELSE <<Issue(RootPath, "expected object")>>
  IN IF issues = <<>>
     THEN [success |-> TRUE, data |-> OrderSchemaOutput(body, fresh),
           issues |-> <<>>]
     ELSE [success |-> FALSE, data |-> [clientRequestId |-> <<>>],
           issues |-> issues]

(***************************************************************************)
(* PRICING (lib/types.ts).                                                 *)
(***************************************************************************)
BASE_PRICE == 1600
DELIVERY_OFFICE == 500
DELIVERY_HOME == 800

calculateTotal(deliveryOption) ==
  BASE_PRICE + (IF deliveryOption = "home" THEN DELIVERY_HOME
                ELSE DELIVERY_OFFICE)

getDeliveryCost(deliveryOption) ==
  IF deliveryOption = "home" THEN DELIVERY_HOME ELSE DELIVERY_OFFICE

(***************************************************************************)
(* The request bodies a client may post.  Unparseable stands for a body    *)
(* on which request.json() throws a SyntaxError.                           *)
(***************************************************************************)
BaseBody ==
  [clientRequestId |-> T1, fullName |-> NameAli, phone |-> PhoneDomestic,
   wilayaNameAr |-> Wilaya, baladiya |-> Baladiya, baladiyaNameAr |-> Baladiya,
   watchModelId |-> 3, deliveryOption |-> "office", totalPrice |-> 2100,
   modelNumber |-> ModelNo, quantity |-> 2]

With(body, k, v) == [x \in DOMAIN body \cup {k} |-> IF x = k THEN v ELSE body[x]]
Without(body, k) == [x \in DOMAIN body \ {k} |-> body[x]]

Unparseable == [unparseable |-> TRUE]

\* home delivery posted with the office total
MispricedBody ==
  With(With(BaseBody, "clientRequestId", T2), "deliveryOption", "home")

ValidBodies ==
  {BaseBody,
   MispricedBody,
   Without(BaseBody, "clientRequestId")}

InvalidBodies ==
  {With(BaseBody, "clientRequestId", NotAUuid),
   With(BaseBody, "fullName", NameShort),
   With(BaseBody, "phone", PhoneLandline),
   With(With(BaseBody, "watchModelId", 11), "totalPrice", 0),
   Without(BaseBody, "deliveryOption")}

Bodies == ValidBodies \cup InvalidBodies \cup {Unparseable}

(***************************************************************************)
(* withRetry (lib/utils).  A frame is the state of one call of withRetry:  *)
(* pc is "calling" while fn() runs, "waiting" during the backoff timer,    *)
(* "returned" / "thrown" once the call is over, "idle" when never called.  *)
(***************************************************************************)
DefaultMaxRetries == 3
DefaultBaseDelay == 1000

IdleFrame ==
  [pc |-> "idle", attempt |-> 0, calls |-> 0, maxRetries |-> DefaultMaxRetries,
   baseDelay |-> DefaultBaseDelay, lastError |-> "none", waits |-> <<>>]

\* entry of withRetry(fn, maxRetries, baseDelay): attempt = 0, fn() is called
withRetryEnter(maxRetries, baseDelay) ==
  [IdleFrame EXCEPT !.pc = "calling", !.maxRetries = maxRetries,
                    !.baseDelay = baseDelay]

\* Variant of the backoff factor that grows linearly: 1, 2, 3
Pow2Linear(n) == n + 1

RECURSIVE Pow2(_)
Pow2(n) == IF n = 0 THEN 1 ELSE 2 * Pow2(n - 1)

\* `return await fn()` when fn() fulfils
withRetryReturn(r) == [r EXCEPT !.pc = "returned", !.calls = @ + 1]

\* Variant of the catch block that records only the first error
withRetryCatchKeepsFirst(r, error) ==
  LET kept == IF r.lastError = "none" THEN error ELSE r.lastError
  IN IF r.attempt = r.maxRetries
     THEN [r EXCEPT !.pc = "thrown", !.calls = @ + 1, !.lastError = kept]
     ELSE [r EXCEPT !.pc = "waiting", !.calls = @ + 1, !.lastError = kept,
                    !.waits = Append(@, r.baseDelay * Pow2(r.attempt))]

\* Variant of the catch block with the budget test off by one: a fifth call
withRetryCatchOffByOne(r, error) ==
  IF r.attempt = r.maxRetries + 1
  THEN [r EXCEPT !.pc = "thrown", !.calls = @ + 1, !.lastError = error]
  ELSE [r EXCEPT !.pc = "waiting", !.calls = @ + 1, !.lastError = error,
                 !.waits = Append(@, r.baseDelay * Pow2(r.attempt))]

\* Variant of the catch block that rethrows configuration errors at once
withRetryCatchClassifies(r, error) ==
  IF r.attempt = r.maxRetries
     \/ error \in {"missing smtp configuration", "missing google credentials"}
  THEN [r EXCEPT !.pc = "thrown", !.calls = @ + 1, !.lastError = error]
  ELSE [r EXCEPT !.pc = "waiting", !.calls = @ + 1, !.lastError = error,
                 !.waits = Append(@, r.baseDelay * Pow2(r.attempt))]

\* the catch block when fn() rejects with `error`
withRetryCatch(r, error) ==
  IF r.attempt = r.maxRetries
  THEN [r EXCEPT !.pc = "thrown", !.calls = @ + 1, !.lastError = error]
  ELSE [r EXCEPT !.pc = "waiting", !.calls = @ + 1, !.lastError = error,
                 !.waits = Append(@, r.baseDelay * Pow2(r.attempt))]

\* Variant in which the backoff timer never calls fn() again
withRetryResumeStalls(r) == [r EXCEPT !.pc = "waiting"]

\* the backoff timer fires: attempt++ and fn() is called again
withRetryResume(r) == [r EXCEPT !.pc = "calling", !.attempt = @ + 1]

(***************************************************************************)
(* The spreadsheet (lib/services/googleSheets).  A cell holds text or a    *)
(* number.  Columns B (timestamp) and C (image formula) are not modelled.  *)
(***************************************************************************)
Str(s) == [str |-> s]
Num(n) == [num |-> n]

HEADER_ROW ==
  [A |-> Str(<<"O", "r", "d", "e", "r", " ", "I", "D">>),
   D |-> Str(<<"N", "a", "m", "e">>),
   E |-> Str(<<"P", "h", "o", "n", "e">>),
   F |-> Str(<<"W", "i", "l", "a", "y", "a">>),
   G |-> Str(<<"B", "a", "l", "a", "d", "i", "y", "a">>),
   H |-> Str(<<"W", "a", "t", "c", "h", " ", "M", "o", "d", "e", "l">>),
   I |-> Str(<<"M", "o", "d", "e", "l", " ", "N", "u", "m", "b", "e", "r">>),
   J |-> Str(<<"Q", "u", "a", "n", "t", "i", "t", "y">>),
   K |-> Str(<<"D", "e", "l", "i", "v", "e", "r", "y", " ", "T", "y", "p", "e">>),
   L |-> Str(<<"T", "o", "t", "a", "l", " ", "P", "r", "i", "c", "e">>),
   M |-> Str(<<"S", "t", "a", "t", "u", "s">>)]

DefaultQuantity == 1

\* Variant that records the price recomputed from the delivery option
formatOrderRowRecomputes(order) ==
  [A |-> Str(order.clientRequestId),
   D |-> Str(order.fullName),
   E |-> Str(order.phone),
   F |-> Str(order.wilayaNameAr),
   G |-> Str(order.baladiyaNameAr),
   H |-> Num(order.watchModelId),
   I |-> Str(IF Has(order, "modelNumber") THEN order.modelNumber ELSE <<>>),
   J |-> Num(IF Has(order, "quantity") /\ order.quantity # 0
             THEN order.quantity ELSE DefaultQuantity),
   K |-> Str(IF order.deliveryOption = "home"
             THEN <<"h", "o", "m", "e">> ELSE <<"o", "f", "f", "i", "c", "e">>),
   L |-> Num(calculateTotal(order.deliveryOption)),
   M |-> Str(<<"N", "e", "w">>)]

formatOrderRow(order) ==
  [A |-> Str(order.clientRequestId),
   D |-> Str(order.fullName),
   E |-> Str(order.phone),
   F |-> Str(order.wilayaNameAr),
   G |-> Str(order.baladiyaNameAr),
   H |-> Num(order.watchModelId),
   I |-> Str(IF Has(order, "modelNumber") THEN order.modelNumber ELSE <<>>),
   J |-> Num(IF Has(order, "quantity") /\ order.quantity # 0
             THEN order.quantity ELSE DefaultQuantity),
   K |-> Str(IF order.deliveryOption = "home"
             THEN <<"h", "o", "m", "e">> ELSE <<"o", "f", "f", "i", "c", "e">>),
   L |-> Num(order.totalPrice),
   M |-> Str(<<"N", "e", "w">>)]

\* hasData: values.get of A1:Z1; a failed read is caught and reads as empty
hasData(led, readOk) == IF readOk THEN Len(led) > 0 ELSE FALSE

\* values.update of A1:M1 with HEADER_ROW
UpdateRow1(led) ==
  IF led = <<>> THEN <<HEADER_ROW>> ELSE [led EXCEPT ![1] = HEADER_ROW]

\* createHeadersIfNeeded: never throws; a failed update leaves the sheet as is
createHeadersIfNeeded(led, readOk, writeOk) ==
  IF hasData(led, readOk) THEN led
  ELSE IF writeOk THEN UpdateRow1(led)
  ELSE led

\* whether createHeadersIfNeeded issues the values.update call
IssuesHeaderWrite(led, readOk) == ~hasData(led, readOk)

\* values.append with INSERT_ROWS: the row goes below the last row of data
AppendRow(led, row) == Append(led, row)

\* the order rows of the sheet: the rows that are not the header row
IsOrderRow(row) == row # HEADER_ROW
OrderRowIndexes(led) == {i \in 1..Len(led) : IsOrderRow(led[i])}

\* checkDuplicateOrder once the read of A2:A has answered
ColumnAFromRow2(led) == {Trim(led[i].A.str) : i \in 2..Len(led)}
DuplicateFound(led, clientRequestId) == clientRequestId \in ColumnAFromRow2(led)

\* how the lookup of checkDuplicateOrder ends: without a read when the sheet
\* id is missing or Sheets is disabled, in the catch block when the client
\* cannot be built or the read throws, or with the rows read
DuplicateReadOutcome(e, readOk) ==
  IF ~e.GOOGLE_SHEET_ID THEN "noSheetId"
  ELSE IF ~e.SHEETS_ENABLED THEN "disabled"
  ELSE IF ~e.GOOGLE_CREDS THEN "noCredentials"
  ELSE IF ~readOk THEN "readFailed"
  ELSE "read"

\* Variant that fails closed: a read that throws counts as a duplicate
checkDuplicateOrderFailsClosed(e, led, clientRequestId, readOk) ==
  IF ~e.GOOGLE_SHEET_ID THEN FALSE
  ELSE IF ~e.SHEETS_ENABLED THEN FALSE
  ELSE IF ~e.GOOGLE_CREDS THEN TRUE
  ELSE IF ~readOk THEN TRUE
  ELSE DuplicateFound(led, clientRequestId)

\* checkDuplicateOrder: false without a read when the sheet id is missing or
\* Sheets is disabled; fails open when the client or the read throws
ReadsLedgerForDuplicate(e) == e.GOOGLE_SHEET_ID /\ e.SHEETS_ENABLED
checkDuplicateOrder(e, led, clientRequestId, readOk) ==
  IF ~e.GOOGLE_SHEET_ID THEN FALSE
  ELSE IF ~e.SHEETS_ENABLED THEN FALSE
  ELSE IF ~e.GOOGLE_CREDS THEN FALSE
  ELSE IF ~readOk THEN FALSE
  ELSE DuplicateFound(led, clientRequestId)

(***************************************************************************)
(* Promise results and the response of POST.                               *)
(***************************************************************************)
NotPushed == [status |-> "none"]
Pending == [status |-> "pending"]
Fulfilled(value) == [status |-> "fulfilled", value |-> value]

Response(status, body) == [status |-> status, body |-> body]
NoResponse == [status |-> 0]

\* the results array of Promise.allSettled(promises), in push order
SettledResults(sheetsEnabled, emailEnabled, sheetRes, emailRes) ==
  (IF sheetsEnabled THEN <<sheetRes>> ELSE <<>>)
    \o (IF emailEnabled THEN <<emailRes>> ELSE <<>>)

\* Variant in which resultIndex is not advanced by the sheets branch
EmailResultIndexStuck(sheetsEnabled) == 1

\* the index at which emailResult is read: resultIndex after the sheets branch
EmailResultIndex(sheetsEnabled) == IF sheetsEnabled THEN 2 ELSE 1

Succeeded(res) == res.status = "fulfilled" /\ res.value.success

allEnabledFailed(sheetsEnabled, sheetSuccess, emailEnabled, emailSuccess) ==
  (sheetsEnabled /\ ~sheetSuccess) /\ (emailEnabled /\ ~emailSuccess)

\* lines 96-170 of POST: from the settled results to the response
AggregateResponse(sheetsEnabled, emailEnabled, results, clientRequestId) ==
  LET sheetRes == IF sheetsEnabled THEN results[1] ELSE NotPushed
      emailRes == IF emailEnabled
                  THEN results[EmailResultIndex(sheetsEnabled)] ELSE NotPushed
      sheetSuccess == IF sheetRes # NotPushed THEN Succeeded(sheetRes) ELSE TRUE
      emailSuccess == IF emailRes # NotPushed THEN Succeeded(emailRes) ELSE TRUE
  IN IF allEnabledFailed(sheetsEnabled, sheetSuccess, emailEnabled, emailSuccess)
     THEN Response(500, [success |-> FALSE, error |-> "processing error"])
     ELSE Response(200, [success |-> TRUE, message |-> "order received",
                         clientRequestId |-> clientRequestId,
                         sheetSaved |-> sheetSuccess,
                         emailSent |-> emailSuccess])

\* Variant that resolves as soon as one pushed promise has settled
AnySettled(sheetRes, emailRes) ==
  sheetRes.status = "fulfilled" \/ emailRes.status = "fulfilled"

\* Promise.allSettled resolves once no pushed promise is pending
AllSettled(sheetRes, emailRes) ==
  sheetRes.status # "pending" /\ emailRes.status # "pending"

(***************************************************************************)
(* State machine.                                                          *)
(***************************************************************************)
Envs ==
  [SHEETS_ENABLED : BOOLEAN, EMAIL_ENABLED : BOOLEAN, GOOGLE_SHEET_ID : BOOLEAN,
   GOOGLE_CREDS : BOOLEAN, SMTP_CREDS : BOOLEAN]

NoTrace ==
  [validation |-> "none", duplicate |-> FALSE, dupRead |-> "none",
   dupChecks |-> 0, ledgerReads |-> 0, saveOrders |-> 0, sendOrderEmails |-> 0,
   headerWrites |-> 0, appends |-> 0, transports |-> 0, verifies |-> 0,
   verified |-> 0, sends |-> 0]

NoOrder == [clientRequestId |-> <<>>]
NoBody == [none |-> TRUE]

\* Variants of the three early returns in which the handler falls through
AfterValidationFallsThrough(success) == "checkDuplicate"
AfterDuplicateCheckFallsThrough(isDuplicate) == "dispatch"
AfterGateFallsThrough(nPromises) == "awaiting"

\* Variant of the catch block that answers every error with 500
CatchResponseAlways500(isSyntaxError) ==
  Response(500, [success |-> FALSE, error |-> "unexpected error"])

\* the catch block of POST (lines 171-191): 400 for the SyntaxError of
\* request.json(), 500 for any other error
CatchResponse(isSyntaxError) ==
  IF isSyntaxError
  THEN Response(400, [success |-> FALSE, error |-> "malformed body"])
  ELSE Response(500, [success |-> FALSE, error |-> "unexpected error"])

\* where POST continues after the validation block (lines 41-56)
AfterValidation(success) == IF ~success THEN "responded" ELSE "checkDuplicate"

\* where POST continues after the duplicate block (lines 62-72)
AfterDuplicateCheck(isDuplicate) ==
  IF isDuplicate THEN "responded" ELSE "dispatch"

\* where POST continues after the gate (lines 84-92)
AfterGate(nPromises) == IF nPromises = 0 THEN "responded" ELSE "awaiting"

Init ==
  /\ env \in Envs
  /\ requestBody = NoBody
  /\ ledger = <<>>
  /\ pc = "idle"
  /\ orderData = NoOrder
  /\ sheetRun = IdleFrame
  /\ sheetResult = NotPushed
  /\ emailRun = IdleFrame
  /\ emailResult = NotPushed
  /\ response = NoResponse
  /\ trace = NoTrace
  /\ served = 0
  /\ prev200 = {}

\* A request arrives when the previous one has been answered.  The handler
\* runs request.json() and safeValidateOrder (lines 34-58 of POST).
Receive(body) ==
  /\ pc \in {"idle", "responded"}
  /\ served < MaxRequests
  /\ served' = served + 1
  /\ requestBody' = body
  /\ prev200' = IF response.status = 200
                THEN prev200 \cup {orderData.clientRequestId} ELSE prev200
  /\ sheetRun' = IdleFrame
  /\ sheetResult' = NotPushed
  /\ emailRun' = IdleFrame
  /\ emailResult' = NotPushed
  /\ IF body = Unparseable
     THEN /\ orderData' = NoOrder
          /\ trace' = [NoTrace EXCEPT !.validation = "unparseable"]
          /\ response' = CatchResponse(TRUE)
          /\ pc' = "responded"
     ELSE LET validation == safeValidateOrder(body, RandomUuid(served + 1))
          IN IF ~validation.success
             THEN /\ orderData' = NoOrder
                  /\ trace' = [NoTrace EXCEPT !.validation = "rejected"]
                  /\ response' =
                       Response(400, [success |-> FALSE,
                                      error |-> validation.issues[1].message,
                                      details |->
                                        [i \in 1..Len(validation.issues) |->
                                           [field |-> validation.issues[i].path,
                                            message |-> validation.issues[i].message]]])
                  /\ pc' = AfterValidation(validation.success)
             ELSE /\ orderData' = validation.data
                  /\ trace' = [NoTrace EXCEPT !.validation = "accepted"]
                  /\ response' = NoResponse
                  /\ pc' = AfterValidation(validation.success)
  /\ UNCHANGED <<env, ledger>>

\* lines 60-72 of POST: await checkDuplicateOrder, 409 on a duplicate
CheckDuplicate(readOk) ==
  /\ pc = "checkDuplicate"
  /\ LET reads == ReadsLedgerForDuplicate(env) /\ env.GOOGLE_CREDS
         isDuplicate ==
           checkDuplicateOrder(env, ledger, orderData.clientRequestId, readOk)
     IN /\ trace' = [trace EXCEPT !.dupChecks = @ + 1,
                                  !.duplicate = isDuplicate,
                                  !.dupRead = DuplicateReadOutcome(env, readOk),
                                  !.ledgerReads = @ + (IF reads THEN 1 ELSE 0)]
        /\ IF isDuplicate
           THEN /\ response' = Response(409, [success |-> FALSE,
                                              error |-> "already received",
                                              duplicate |-> TRUE])
                /\ pc' = AfterDuplicateCheck(isDuplicate)
           ELSE /\ response' = response
                /\ pc' = AfterDuplicateCheck(isDuplicate)
  /\ UNCHANGED <<env, requestBody, ledger, orderData, sheetRun, sheetResult,
                 emailRun, emailResult, served, prev200>>

\* saveOrder up to its first await: the sheet id and enabled checks, then
\* withRetry(fn, 3) is entered
saveOrderEnter(e) ==
  IF ~e.GOOGLE_SHEET_ID
  THEN [run |-> IdleFrame,
        result |-> Fulfilled([success |-> FALSE, error |-> "no sheet id"])]
  ELSE IF ~e.SHEETS_ENABLED
  THEN [run |-> IdleFrame, result |-> Fulfilled([success |-> TRUE])]
  ELSE [run |-> withRetryEnter(3, DefaultBaseDelay), result |-> Pending]

\* sendOrderEmail up to its first await: withRetry(fn, 3) is entered
sendOrderEmailEnter ==
  [run |-> withRetryEnter(3, DefaultBaseDelay), result |-> Pending]

\* lines 74-92 of POST: the enabled integrations are started; 500 when none
Dispatch ==
  /\ pc = "dispatch"
  /\ LET sheetsEnabled == env.SHEETS_ENABLED
         emailEnabled == env.EMAIL_ENABLED
         sheet == saveOrderEnter(env)
         mail == sendOrderEmailEnter
         nPromises == (IF sheetsEnabled THEN 1 ELSE 0)
                        + (IF emailEnabled THEN 1 ELSE 0)
     IN /\ sheetRun' = IF sheetsEnabled THEN sheet.run ELSE sheetRun
        /\ sheetResult' = IF sheetsEnabled THEN sheet.result ELSE sheetResult
        /\ emailRun' = IF emailEnabled THEN mail.run ELSE emailRun
        /\ emailResult' = IF emailEnabled THEN mail.result ELSE emailResult
        /\ trace' = [trace EXCEPT
                       !.saveOrders = @ + (IF sheetsEnabled THEN 1 ELSE 0),
                       !.sendOrderEmails = @ + (IF emailEnabled THEN 1 ELSE 0)]
        /\ IF nPromises = 0
           THEN /\ response' = Response(500, [success |-> FALSE,
                                              error |-> "all channels disabled"])
                /\ pc' = AfterGate(nPromises)
           ELSE /\ response' = response
                /\ pc' = AfterGate(nPromises)
  /\ UNCHANGED <<env, requestBody, ledger, orderData, served, prev200>>

\* a promise that rejects: what a function that throws hands to its caller
Rejected(reason) == [status |-> "rejected", reason |-> reason]

\* Variant of saveOrder without the catch: the last error is rethrown
saveOrderSettleRethrows(r, value) ==
  IF r.pc = "returned" THEN Fulfilled(value)
  ELSE IF r.pc = "thrown" THEN Rejected(r.lastError)
  ELSE Pending

\* saveOrder's try/catch around withRetry: the value it resolves with once
\* the frame is over
saveOrderSettle(r, value) ==
  IF r.pc = "returned" THEN Fulfilled(value)
  ELSE IF r.pc = "thrown"
  THEN Fulfilled([success |-> FALSE, error |-> r.lastError])
  ELSE Pending

\* what one run of saveOrder's callback did: the error it threw ("none"
\* when it returned), the sheet it left, and the calls it made
SheetOutcomeOf(error, led, reads, headerWrites, appends) ==
  [error |-> error, ledger |-> led, reads |-> reads,
   headerWrites |-> headerWrites, appends |-> appends]

\* Variant of the callback in which a failed header creation is fatal
saveOrderAttemptHeaderFatal(e, led, order, readOk, writeOk, appendOk) ==
  IF ~e.GOOGLE_CREDS
  THEN SheetOutcomeOf("missing google credentials", led, 0, 0, 0)
  ELSE IF ~readOk
  THEN SheetOutcomeOf("header creation failed", led, 1, 0, 0)
  ELSE IF ~hasData(led, readOk) /\ ~writeOk
  THEN SheetOutcomeOf("header creation failed", led, 1, 1, 0)
  ELSE LET withHeaders == createHeadersIfNeeded(led, readOk, writeOk)
           wrote == IF IssuesHeaderWrite(led, readOk) THEN 1 ELSE 0
       IN IF appendOk
          THEN SheetOutcomeOf("none",
                              AppendRow(withHeaders, formatOrderRow(order)),
                              1, wrote, 1)
          ELSE SheetOutcomeOf("append failed", withHeaders, 1, wrote, 1)

\* The callback saveOrder hands to withRetry (lines 283-312): client, header
\* creation, append.  readOk, writeOk, appendOk are the outcomes of the
\* three calls to the Sheets API.
saveOrderAttempt(e, led, order, readOk, writeOk, appendOk) ==
  IF ~e.GOOGLE_CREDS
  THEN SheetOutcomeOf("missing google credentials", led, 0, 0, 0)
  ELSE LET withHeaders == createHeadersIfNeeded(led, readOk, writeOk)
           wrote == IF IssuesHeaderWrite(led, readOk) THEN 1 ELSE 0
       IN IF appendOk
          THEN SheetOutcomeOf("none",
                              AppendRow(withHeaders, formatOrderRow(order)),
                              1, wrote, 1)
          ELSE SheetOutcomeOf("append failed", withHeaders, 1, wrote, 1)

\* One attempt of saveOrder inside withRetry
SheetAttempt(readOk, writeOk, appendOk) ==
  /\ pc = "awaiting"
  /\ sheetRun.pc = "calling"
  /\ LET did == saveOrderAttempt(env, ledger, orderData,
                                 readOk, writeOk, appendOk)
         r == IF did.error = "none" THEN withRetryReturn(sheetRun)
              ELSE withRetryCatch(sheetRun, did.error)
     IN /\ ledger' = did.ledger
        /\ sheetRun' = r
        /\ sheetResult' =
             saveOrderSettle(r, [success |-> TRUE,
                                 rowNumber |-> Len(did.ledger)])
        /\ trace' = [trace EXCEPT !.ledgerReads = @ + did.reads,
                                  !.headerWrites = @ + did.headerWrites,
                                  !.appends = @ + did.appends]
  /\ UNCHANGED <<env, requestBody, pc, orderData, emailRun, emailResult,
                 response, served, prev200>>

\* the backoff timer of saveOrder's withRetry fires
SheetBackoff ==
  /\ pc = "awaiting"
  /\ sheetRun.pc = "waiting"
  /\ sheetRun' = withRetryResume(sheetRun)
  /\ UNCHANGED <<env, requestBody, ledger, pc, orderData, sheetResult,
                 emailRun, emailResult, response, trace, served, prev200>>

\* sendOrderEmail's try/catch around withRetry
sendOrderEmailSettle(r) ==
  IF r.pc = "returned" THEN Fulfilled([success |-> TRUE])
  ELSE IF r.pc = "thrown"
  THEN Fulfilled([success |-> FALSE, error |-> r.lastError])
  ELSE Pending

\* what one run of the callback did: the error it threw ("none" when it
\* returned) and the calls it made
AttemptOutcome(error, transports, verifies, verified, sends) ==
  [error |-> error, transports |-> transports, verifies |-> verifies,
   verified |-> verified, sends |-> sends]

\* Variant of the callback that ignores the result of verifyConnection
sendOrderEmailAttemptIgnoresVerify(e, verifyOk, sendOk) ==
  IF ~e.SMTP_CREDS
  THEN AttemptOutcome("missing smtp configuration", 0, 0, 0, 0)
  ELSE AttemptOutcome(IF sendOk THEN "none" ELSE "send failed",
                      1, 1, IF verifyOk THEN 1 ELSE 0, 1)

\* The callback sendOrderEmail hands to withRetry (lines 264-304):
\* createTransporter, verifyConnection, sendMail.  verifyOk and sendOk are
\* the outcomes of the two SMTP exchanges.
sendOrderEmailAttempt(e, verifyOk, sendOk) ==
  IF ~e.SMTP_CREDS
  THEN AttemptOutcome("missing smtp configuration", 0, 0, 0, 0)
  ELSE IF ~verifyOk
  THEN AttemptOutcome("smtp verification failed", 1, 1, 0, 0)
  ELSE AttemptOutcome(IF sendOk THEN "none" ELSE "send failed", 1, 1, 1, 1)

\* One attempt of sendOrderEmail inside withRetry
EmailAttempt(verifyOk, sendOk) ==
  /\ pc = "awaiting"
  /\ emailRun.pc = "calling"
  /\ LET did == sendOrderEmailAttempt(env, verifyOk, sendOk)
         r == IF did.error = "none" THEN withRetryReturn(emailRun)
              ELSE withRetryCatch(emailRun, did.error)
     IN /\ emailRun' = r
        /\ emailResult' = sendOrderEmailSettle(r)
        /\ trace' = [trace EXCEPT !.transports = @ + did.transports,
                                  !.verifies = @ + did.verifies,
                                  !.verified = @ + did.verified,
                                  !.sends = @ + did.sends]
  /\ UNCHANGED <<env, requestBody, ledger, pc, orderData, sheetRun,
                 sheetResult, response, served, prev200>>

\* the backoff timer of sendOrderEmail's withRetry fires
EmailBackoff ==
  /\ pc = "awaiting"
  /\ emailRun.pc = "waiting"
  /\ emailRun' = withRetryResume(emailRun)
  /\ UNCHANGED <<env, requestBody, ledger, pc, orderData, sheetRun,
                 sheetResult, emailResult, response, trace, served, prev200>>

\* lines 94-170 of POST: Promise.allSettled has resolved, the response is
\* built from the settled results
Aggregate ==
  /\ pc = "awaiting"
  /\ AllSettled(sheetResult, emailResult)
  /\ response' =
       AggregateResponse(env.SHEETS_ENABLED, env.EMAIL_ENABLED,
                         SettledResults(env.SHEETS_ENABLED, env.EMAIL_ENABLED,
                                        sheetResult, emailResult),
                         orderData.clientRequestId)
  /\ pc' = "responded"
  /\ UNCHANGED <<env, requestBody, ledger, orderData, sheetRun, sheetResult,
                 emailRun, emailResult, trace, served, prev200>>

Next ==
  \/ \E body \in Bodies : Receive(body)
  \/ \E readOk \in BOOLEAN : CheckDuplicate(readOk)
  \/ Dispatch
  \/ \E readOk, writeOk, appendOk \in BOOLEAN :
       SheetAttempt(readOk, writeOk, appendOk)
  \/ SheetBackoff
  \/ \E verifyOk, sendOk \in BOOLEAN : EmailAttempt(verifyOk, sendOk)
  \/ EmailBackoff
  \/ Aggregate

Spec == Init /\ [][Next]_vars

(***************************************************************************)
(* saveOrder and sendOrderEmail called on their own, as a caller other     *)
(* than POST may call the two exported functions: in any configuration,    *)
(* one call at a time, each call running to its settled result.            *)
(***************************************************************************)
SampleOrders ==
  {OrderSchemaOutput(b, RandomUuid(1)) :
     b \in {BaseBody, With(BaseBody, "clientRequestId", T2)}}

\* saveOrder(order) is called: lines 265-283
CallSaveOrder(order) ==
  /\ pc = "idle"
  /\ served < MaxRequests
  /\ served' = served + 1
  /\ orderData' = order
  /\ LET sheet == saveOrderEnter(env)
     IN /\ sheetRun' = sheet.run
        /\ sheetResult' = sheet.result
  /\ emailRun' = IdleFrame
  /\ emailResult' = NotPushed
  /\ trace' = [NoTrace EXCEPT !.saveOrders = 1]
  /\ pc' = "awaiting"
  /\ UNCHANGED <<env, requestBody, ledger, response, prev200>>

\* sendOrderEmail(order) is called: lines 260-264
CallSendOrderEmail(order) ==
  /\ pc = "idle"
  /\ served < MaxRequests
  /\ served' = served + 1
  /\ orderData' = order
  /\ sheetRun' = IdleFrame
  /\ sheetResult' = NotPushed
  /\ LET mail == sendOrderEmailEnter
     IN /\ emailRun' = mail.run
        /\ emailResult' = mail.result
  /\ trace' = [NoTrace EXCEPT !.sendOrderEmails = 1]
  /\ pc' = "awaiting"
  /\ UNCHANGED <<env, requestBody, ledger, response, prev200>>

\* the caller receives the settled result
CallReturns ==
  /\ pc = "awaiting"
  /\ AllSettled(sheetResult, emailResult)
  /\ pc' = "idle"
  /\ UNCHANGED <<env, requestBody, ledger, orderData, sheetRun, sheetResult,
                 emailRun, emailResult, response, trace, served, prev200>>

IntegrationNext ==
  \/ \E order \in SampleOrders : CallSaveOrder(order)
  \/ \E order \in SampleOrders : CallSendOrderEmail(order)
  \/ \E readOk, writeOk, appendOk \in BOOLEAN :
       SheetAttempt(readOk, writeOk, appendOk)
  \/ SheetBackoff
  \/ \E verifyOk, sendOk \in BOOLEAN : EmailAttempt(verifyOk, sendOk)
  \/ EmailBackoff
  \/ CallReturns

IntegrationSpec == Init /\ [][IntegrationNext]_vars

(***************************************************************************)
(* The validator on its own: one request whose body ranges over a product  *)
(* of present / absent / valid / invalid values of six keys, and over JSON *)
(* values that are not objects.  A choice is <<>> (key absent) or <<v>>.   *)
(***************************************************************************)
NameBlank == <<" ", " ">>
PhoneSpaced == <<"0", "5", "5", "5", " ", "1", "2", "3", "4", "5", "6">>

IdChoices == {<<>>, <<T1>>, <<NotAUuid>>}
NameChoices == {<<>>, <<NameAli>>, <<NamePadded>>, <<NameShort>>, <<NameBlank>>}
PhoneChoices ==
  {<<>>, <<PhoneDomestic>>, <<PhoneIntl>>, <<PhoneLandline>>, <<PhoneSpaced>>}
\* <<f, t>> is the number f + t/10
ModelChoices == {<<>>, <<3>>, <<0>>, <<11>>, <<1>>, <<10>>, <<3, 5>>, <<10, 5>>}
DeliveryChoices == {<<>>, <<"office">>, <<"pickup">>}
PriceChoices == {<<2100>>, <<0>>, <<-5>>, <<1>>, <<1000000>>, <<1000001>>}

Choose(body, k, choice) ==
  IF Len(choice) = 0 THEN Without(body, k)
  ELSE IF Len(choice) = 1 THEN With(body, k, choice[1])
  ELSE With(With(body, k, choice[1]), TenthsKey, choice[2])

ObjectBodies ==
  {Choose(Choose(Choose(Choose(Choose(Choose(BaseBody,
      "clientRequestId", c), "fullName", n), "phone", p),
      "watchModelId", m), "deliveryOption", d), "totalPrice", t) :
     c \in IdChoices, n \in NameChoices, p \in PhoneChoices,
     m \in ModelChoices, d \in DeliveryChoices, t \in PriceChoices}

NonObjectBodies == {JsonValue("null"), JsonValue("array"), JsonValue("string")}

ValidatorBodies == ObjectBodies \cup NonObjectBodies

\* the first request of the process: request.json(), safeValidateOrder and
\* the 400 answer (lines 34-58 of POST)
ValidateRequest(body) == served = 0 /\ Receive(body)

ValidatorNext == \E body \in ValidatorBodies : ValidateRequest(body)

\* the validator reads no configuration: one configuration stands for all
ValidatorInit ==
  /\ Init
  /\ env = [SHEETS_ENABLED |-> TRUE, EMAIL_ENABLED |-> TRUE,
            GOOGLE_SHEET_ID |-> TRUE, GOOGLE_CREDS |-> TRUE,
            SMTP_CREDS |-> TRUE]

ValidatorSpec == ValidatorInit /\ [][ValidatorNext]_vars

(***************************************************************************)
(* POST under the scheduling of the runtime: a handler that can take its   *)
(* next step takes it (the event loop resumes every settled await, every   *)
(* timer fires) and every external call returns or fails.  Which requests  *)
(* arrive, and when, is left open.                                         *)
(***************************************************************************)
LiveBodies ==
  {BaseBody, With(BaseBody, "fullName", NameShort), Unparseable}

LiveNext ==
  \/ \E body \in LiveBodies : Receive(body)
  \/ \E readOk \in BOOLEAN : CheckDuplicate(readOk)
  \/ Dispatch
  \/ \E readOk, writeOk, appendOk \in BOOLEAN :
       SheetAttempt(readOk, writeOk, appendOk)
  \/ SheetBackoff
  \/ \E verifyOk, sendOk \in BOOLEAN : EmailAttempt(verifyOk, sendOk)
  \/ EmailBackoff
  \/ Aggregate

Scheduling ==
  /\ WF_vars(\E readOk \in BOOLEAN : CheckDuplicate(readOk))
  /\ WF_vars(Dispatch)
  /\ WF_vars(\E readOk, writeOk, appendOk \in BOOLEAN :
               SheetAttempt(readOk, writeOk, appendOk))
  /\ WF_vars(SheetBackoff)
  /\ WF_vars(\E verifyOk, sendOk \in BOOLEAN : EmailAttempt(verifyOk, sendOk))
  /\ WF_vars(EmailBackoff)
  /\ WF_vars(Aggregate)

LiveSpec == Init /\ [][LiveNext]_vars /\ Scheduling

(***************************************************************************)
(* Properties.                                                             *)
(***************************************************************************)
Responded == pc = "responded"
\* the response of the request being served was built from settled results
Aggregated == Responded /\ trace.saveOrders + trace.sendOrderEmails > 0
SheetOutcome == sheetResult.status = "fulfilled" /\ sheetResult.value.success
EmailOutcome == emailResult.status = "fulfilled" /\ emailResult.value.success
SheetFailed == sheetResult.status = "fulfilled" /\ ~sheetResult.value.success
EmailFailed == emailResult.status = "fulfilled" /\ ~emailResult.value.success
EveryEnabledFailed ==
  /\ env.SHEETS_ENABLED \/ env.EMAIL_ENABLED
  /\ env.SHEETS_ENABLED => SheetFailed
  /\ env.EMAIL_ENABLED => EmailFailed
SomeEnabledSucceeded ==
  \/ env.SHEETS_ENABLED /\ SheetOutcome
  \/ env.EMAIL_ENABLED /\ EmailOutcome
NothingInvoked ==
  /\ trace.saveOrders = 0 /\ trace.sendOrderEmails = 0
  /\ trace.appends = 0 /\ trace.headerWrites = 0
  /\ trace.verifies = 0 /\ trace.sends = 0
FrameOver(r) == r.pc \in {"idle", "returned", "thrown"}

\* C1: whenever a request that reached dispatch has been answered and every
\* enabled integration (one or two) reported failure, the answer is 500 with
\* success = false.
C1_EveryEnabledFailedIs500 ==
  (Aggregated /\ EveryEnabledFailed)
    => (response.status = 500 /\ ~response.body.success)

\* C2: whenever a request that reached dispatch has been answered and at
\* least one enabled integration succeeded, the answer is 200 with
\* success = true, sheetSaved is the Ledger Writer's own outcome and
\* emailSent the Notifier's own outcome, a disabled integration counting
\* as true.
C2_PartialSuccessFlags ==
  (Aggregated /\ SomeEnabledSucceeded)
    => /\ response.status = 200
       /\ response.body.success
       /\ response.body.clientRequestId = orderData.clientRequestId
       /\ response.body.sheetSaved =
            (IF env.SHEETS_ENABLED THEN SheetOutcome ELSE TRUE)
       /\ response.body.emailSent =
            (IF env.EMAIL_ENABLED THEN EmailOutcome ELSE TRUE)

\* C2 witness: both integrations enabled, the ledger failed, the notifier
\* succeeded, and the answer carries sheetSaved = false, emailSent = true.
C2_Witness ==
  /\ Aggregated
  /\ env.SHEETS_ENABLED /\ env.EMAIL_ENABLED
  /\ SheetFailed /\ EmailOutcome
  /\ response.status = 200
  /\ ~response.body.sheetSaved /\ response.body.emailSent

\* C3: a request whose clientRequestId was answered 200 by an earlier,
\* completed request is answered 409.
C3_ResubmissionIs409 ==
  (Responded /\ orderData.clientRequestId \in prev200)
    => response.status = 409

\* C4: no step overwrites, changes or removes an order row that is in the
\* ledger.
C4_OrderRowsNeverChange ==
  [][\A i \in OrderRowIndexes(ledger) :
       i <= Len(ledger') /\ ledger'[i] = ledger[i]]_vars

\* C5: the ledger holds at most one order row per clientRequestId.
C5_OneRowPerToken ==
  \A i, j \in OrderRowIndexes(ledger) :
    ledger[i].A = ledger[j].A => i = j

\* C6: once safeValidateOrder has rejected the body, the request is answered
\* 400 with success = false and nothing else is invoked for it: no duplicate
\* check, no ledger read or write, no notification.
C6_ValidationFailureIsTerminal ==
  trace.validation = "rejected"
    => /\ Responded
       /\ response.status = 400
       /\ ~response.body.success
       /\ Len(response.body.details) >= 1
       /\ trace.dupChecks = 0 /\ trace.ledgerReads = 0
       /\ NothingInvoked

\* C6 witness: a rejected body has been answered while the ledger already
\* holds rows of an earlier request.
C6_Witness ==
  /\ trace.validation = "rejected"
  /\ Responded
  /\ response.status = 400
  /\ ledger # <<>>

\* C7: once checkDuplicateOrder has returned true, the request is answered
\* 409 with success = false and duplicate = true, and no ledger append and no
\* notification send happens for it.
C7_DuplicateIsTerminal ==
  trace.duplicate
    => /\ Responded
       /\ response.status = 409
       /\ ~response.body.success
       /\ response.body.duplicate
       /\ NothingInvoked

\* C7 witness: a duplicate has been detected and answered while both
\* integrations are enabled.
C7_Witness ==
  /\ trace.duplicate
  /\ Responded
  /\ env.SHEETS_ENABLED /\ env.EMAIL_ENABLED
  /\ response.status = 409

\* C8: a valid, non-duplicate request served with both integrations disabled
\* is answered 500 with success = false once it is past the duplicate check,
\* and no integration is dispatched.
PastGate ==
  /\ trace.validation = "accepted"
  /\ trace.dupChecks = 1
  /\ ~trace.duplicate
  /\ pc # "dispatch"
C8_BothDisabledIs500 ==
  (PastGate /\ ~env.SHEETS_ENABLED /\ ~env.EMAIL_ENABLED)
    => /\ Responded
       /\ response.status = 500
       /\ ~response.body.success
       /\ NothingInvoked
       /\ sheetResult = NotPushed /\ emailResult = NotPushed

\* C8 witness: such a request has been answered.
C8_Witness ==
  /\ PastGate
  /\ ~env.SHEETS_ENABLED /\ ~env.EMAIL_ENABLED
  /\ Responded

\* C9: a response built after dispatch exists only when every enabled
\* integration has settled and its retry frame is over, a frame that threw
\* having made all its calls whatever the sibling did; and while one
\* integration waits for its backoff timer or has settled, the other one's
\* next attempt or timer is still enabled.
C9_WaitForAllJoin ==
  /\ Aggregated
       => /\ env.SHEETS_ENABLED => sheetResult.status = "fulfilled"
          /\ env.EMAIL_ENABLED => emailResult.status = "fulfilled"
          /\ FrameOver(sheetRun) /\ FrameOver(emailRun)
          /\ sheetRun.pc = "thrown" => sheetRun.calls = sheetRun.maxRetries + 1
          /\ emailRun.pc = "thrown" => emailRun.calls = emailRun.maxRetries + 1
  /\ (pc = "awaiting" /\ emailRun.pc = "calling")
       => ENABLED (\E verifyOk, sendOk \in BOOLEAN : EmailAttempt(verifyOk, sendOk))
  /\ (pc = "awaiting" /\ emailRun.pc = "waiting") => ENABLED EmailBackoff
  /\ (pc = "awaiting" /\ sheetRun.pc = "calling")
       => ENABLED (\E readOk, writeOk, appendOk \in BOOLEAN :
                     SheetAttempt(readOk, writeOk, appendOk))
  /\ (pc = "awaiting" /\ sheetRun.pc = "waiting") => ENABLED SheetBackoff
  /\ (pc = "awaiting" /\ ~AllSettled(sheetResult, emailResult))
       => ~ENABLED Aggregate

\* C9 witness: the notifier has failed all four attempts while the ledger
\* writer is still in its first backoff wait, and no response exists yet.
C9_Witness ==
  /\ pc = "awaiting"
  /\ sheetRun.pc = "waiting" /\ sheetRun.attempt = 0
  /\ EmailFailed /\ emailRun.calls = 4
  /\ response = NoResponse

\* C10: each withRetry frame of saveOrder and sendOrderEmail calls its
\* operation at most 4 times; a frame that returned did so on the first
\* attempt that succeeded (every earlier call failed and was followed by a
\* wait) and hands that attempt's result on; and a frame that returned makes
\* no further call.
FrameWithinBudget(r) ==
  /\ r.calls <= 4
  /\ r.pc = "returned" => (r.calls = r.attempt + 1 /\ Len(r.waits) = r.attempt)
  /\ r.pc = "thrown" => (r.calls = 4 /\ Len(r.waits) = 3)
ReturnedFrameIsFinal(r, rNext) ==
  (r.pc = "returned" /\ served' = served) => rNext = r
C10_AtMostFourCalls ==
  [][/\ FrameWithinBudget(sheetRun') /\ FrameWithinBudget(emailRun')
     /\ ReturnedFrameIsFinal(sheetRun, sheetRun')
     /\ ReturnedFrameIsFinal(emailRun, emailRun')
     /\ sheetRun'.pc = "returned"
          => /\ sheetResult' = Fulfilled([success |-> TRUE,
                                          rowNumber |-> Len(ledger')])
             /\ ledger'[Len(ledger')] = formatOrderRow(orderData')
             /\ trace'.appends = sheetRun'.calls
     /\ emailRun'.pc = "returned"
          => /\ emailResult' = Fulfilled([success |-> TRUE])
             /\ trace'.sends >= 1]_vars

\* C10 witness: the ledger writer returned on its fourth call, after three
\* failed attempts, and the notifier on its second.
C10_Witness ==
  /\ sheetRun.pc = "returned" /\ sheetRun.calls = 4
  /\ emailRun.pc = "returned" /\ emailRun.calls = 2

\* C11: in each withRetry frame the wait inserted after failed attempt k
\* (0-indexed) is baseDelay * 2^k, i.e. 1000, 2000, 4000 ms in that order,
\* one wait per failed attempt that is retried and none after the final
\* failed attempt.
BackoffSchedule == <<1000, 2000, 4000>>
FrameFollowsSchedule(r) ==
  /\ Len(r.waits) <= Len(BackoffSchedule)
  /\ r.waits = SubSeq(BackoffSchedule, 1, Len(r.waits))
  /\ r.pc = "waiting" => Len(r.waits) = r.attempt + 1
  /\ r.pc = "calling" => Len(r.waits) = r.attempt
  /\ r.pc = "thrown" => Len(r.waits) = r.calls - 1
C11_ExponentialBackoff ==
  FrameFollowsSchedule(sheetRun) /\ FrameFollowsSchedule(emailRun)

\* C11 witness: the ledger writer has failed its fourth and last attempt
\* after waiting 1000, 2000 and 4000 ms.
C11_Witness ==
  /\ sheetRun.pc = "thrown"
  /\ sheetRun.calls = 4
  /\ sheetRun.waits = <<1000, 2000, 4000>>

\* C12: when the last attempt of a withRetry frame fails the frame throws,
\* and the error it throws (the one saveOrder / sendOrderEmail report) is the
\* error of that final attempt, not of an earlier one.  The error of the
\* attempt made in a step is read off what that attempt invoked.
EmailAttemptErrorInStep ==
  IF trace'.verifies = trace.verifies THEN "missing smtp configuration"
  ELSE IF trace'.sends = trace.sends THEN "smtp verification failed"
  ELSE "send failed"
SheetAttemptErrorInStep ==
  IF trace'.appends = trace.appends THEN "missing google credentials"
  ELSE "append failed"
C12_LastErrorSurfaced ==
  [][/\ (emailRun.pc = "calling" /\ emailRun'.pc = "thrown")
          => /\ emailRun'.calls = 4
             /\ emailRun'.lastError = EmailAttemptErrorInStep
             /\ emailResult' = Fulfilled([success |-> FALSE,
                                          error |-> EmailAttemptErrorInStep])
     /\ (sheetRun.pc = "calling" /\ sheetRun'.pc = "thrown")
          => /\ sheetRun'.calls = 4
             /\ sheetRun'.lastError = SheetAttemptErrorInStep
             /\ sheetResult' = Fulfilled([success |-> FALSE,
                                          error |-> SheetAttemptErrorInStep])
     /\ (emailRun.pc = "calling" /\ emailRun.attempt = 3
           /\ emailRun'.calls = 4 /\ emailRun'.pc # "returned")
          => emailRun'.pc = "thrown"
     /\ (sheetRun.pc = "calling" /\ sheetRun.attempt = 3
           /\ sheetRun'.calls = 4 /\ sheetRun'.pc # "returned")
          => sheetRun'.pc = "thrown"]_vars

\* C12 witness: the notifier threw "send failed" although its three earlier
\* attempts failed in verification (four verifications, one send).
C12_Witness ==
  /\ emailRun.pc = "thrown"
  /\ emailResult = Fulfilled([success |-> FALSE, error |-> "send failed"])
  /\ trace.verifies = 4
  /\ trace.sends = 1

\* C13: whenever the lookup of checkDuplicateOrder fails (the read throws,
\* the credentials or the sheet id are missing), checkDuplicateOrder returns
\* false and the request goes on to the gate and dispatch: it is never
\* answered 409, whatever the ledger holds.
DuplicateReadFailed ==
  trace.dupRead \in {"noSheetId", "noCredentials", "readFailed"}
C13_DuplicateGuardFailsOpen ==
  DuplicateReadFailed
    => /\ ~trace.duplicate
       /\ \/ pc \in {"dispatch", "awaiting"}
          \/ Aggregated
          \/ /\ Responded
             /\ ~env.SHEETS_ENABLED /\ ~env.EMAIL_ENABLED
             /\ response.status = 500

\* C13 witness: the ledger holds the request's token in row 2, the read
\* failed, and the request has been dispatched all the same.
C13_Witness ==
  /\ trace.dupRead = "readFailed"
  /\ DuplicateFound(ledger, orderData.clientRequestId)
  /\ pc = "awaiting"
  /\ trace.appends = 0

\* C14: whenever saveOrder is called with SHEETS_ENABLED = "false" it
\* returns success = true and performs no ledger read or write, whatever the
\* rest of the configuration is.
C14_DisabledSaveOrderIsNoOp ==
  (trace.saveOrders = 1 /\ ~env.SHEETS_ENABLED)
    => /\ sheetResult = Fulfilled([success |-> TRUE])
       /\ trace.ledgerReads = 0
       /\ trace.headerWrites = 0
       /\ trace.appends = 0

IsFailureValue(res) ==
  /\ res.status = "fulfilled"
  /\ DOMAIN res.value = {"success", "error"}
  /\ res.value.success = FALSE

\* C15: saveOrder and sendOrderEmail never throw: their promises never
\* reject, and every failure inside them (a missing sheet id, missing
\* credentials, a failed external call, all retries used up) reaches the
\* caller as a value {success: false, error} carrying the error message.
C15_IntegrationsNeverThrow ==
  /\ sheetResult.status # "rejected"
  /\ emailResult.status # "rejected"
  /\ sheetRun.pc = "thrown"
       => IsFailureValue(sheetResult)
          /\ sheetResult.value.error = sheetRun.lastError
  /\ emailRun.pc = "thrown"
       => IsFailureValue(emailResult)
          /\ emailResult.value.error = emailRun.lastError
  /\ (trace.saveOrders = 1 /\ ~env.GOOGLE_SHEET_ID)
       => IsFailureValue(sheetResult)
          /\ sheetResult.value.error = "no sheet id"

C15_Witness ==
  /\ sheetRun.pc = "thrown"
  /\ sheetRun.lastError = "append failed"
  /\ emailRun.pc = "thrown"
  /\ emailRun.lastError = "send failed"
  /\ IsFailureValue(sheetResult)
  /\ IsFailureValue(emailResult)

\* a step in which the callback of sendOrderEmail runs once
EmailAttemptStep ==
  /\ pc = "awaiting"
  /\ emailRun.pc = "calling"
  /\ emailRun'.calls = emailRun.calls + 1

\* C16: every attempt of sendOrderEmail that has SMTP credentials creates
\* one new transport and verifies it; sendMail is invoked in an attempt only
\* when that attempt's verification succeeded; an attempt whose verification
\* fails sends nothing, is recorded as a failed attempt with the
\* verification error, and is retried while retries remain.
C16_VerifyBeforeSend ==
  [][EmailAttemptStep =>
       LET transports == trace'.transports - trace.transports
           verifies == trace'.verifies - trace.verifies
           verified == trace'.verified - trace.verified
           sends == trace'.sends - trace.sends
       IN /\ transports = (IF env.SMTP_CREDS THEN 1 ELSE 0)
          /\ verifies = transports
          /\ sends = 1 => verified = 1
          /\ (verifies = 1 /\ verified = 0)
               => /\ sends = 0
                  /\ emailRun'.lastError = "smtp verification failed"
                  /\ emailRun'.pc =
                       (IF emailRun.attempt < emailRun.maxRetries
                        THEN "waiting" ELSE "thrown")]_vars

\* C16 witness: the first attempt failed at verification and sent nothing,
\* the second attempt verified its own new transport and sent.
C16_Witness ==
  /\ emailRun.pc = "returned"
  /\ emailRun.calls = 2
  /\ trace.transports = 2
  /\ trace.verifies = 2
  /\ trace.verified = 1
  /\ trace.sends = 1

\* C17: a request whose body is not parseable JSON is answered 400 with
\* success = false; the validator does not run on it (no ValidatedOrder, no
\* details), and neither the duplicate check nor any integration is called.
C17_UnparseableBodyIs400 ==
  trace.validation = "unparseable"
    => /\ Responded
       /\ response.status = 400
       /\ response.body.success = FALSE
       /\ "details" \notin DOMAIN response.body
       /\ orderData = NoOrder
       /\ trace.dupChecks = 0
       /\ trace.ledgerReads = 0
       /\ NothingInvoked

C17_Witness ==
  /\ requestBody = Unparseable
  /\ trace.validation = "unparseable"
  /\ Responded
  /\ response.status = 400

Validated == trace.validation \in {"accepted", "rejected"}

\* the body in which only key k is as the client sent it, every other key
\* holding a valid value
Isolate(body, k) ==
  IF ~Has(body, k) THEN Without(BaseBody, k)
  ELSE IF k = "watchModelId"
  THEN With(With(BaseBody, k, body[k]), TenthsKey, Tenths(body))
  ELSE With(BaseBody, k, body[k])

\* the keys of the schema that are missing from the body or hold a value
\* the schema rejects
OffendingKeys(body) ==
  {SchemaKeys[i] : i \in {j \in 1..Len(SchemaKeys) :
      ~safeValidateOrder(Isolate(body, SchemaKeys[j]), RandomUuid(1)).success}}

DetailFields ==
  {response.body.details[i].field : i \in DOMAIN response.body.details}

\* C18 as stated: for every input, the details of the 400 answer name
\* exactly the keys that are missing or invalid, all of them, and the
\* top-level error is the message of the first entry.
C18_DetailsNameEveryOffendingKey ==
  trace.validation = "rejected"
    => /\ response.status = 400
       /\ DetailFields = OffendingKeys(requestBody)
       /\ response.body.error = response.body.details[1].message

\* C18 amended: for every body that is a JSON object, the details of the
\* 400 answer name exactly the keys that are missing or invalid, all of
\* them; for a JSON body that is not an object the details are one entry
\* whose field is the empty string; in both cases the top-level error is
\* the message of the first entry.
C18_DetailsOfObjectBodies ==
  trace.validation = "rejected"
    => /\ response.status = 400
       /\ response.body.error = response.body.details[1].message
       /\ IF IsJsonObject(requestBody)
          THEN DetailFields = OffendingKeys(requestBody)
          ELSE /\ Len(response.body.details) = 1
               /\ response.body.details[1].field = RootPath

\* C18 witness: an object body with four offending keys, one of them
\* missing, all four listed
C18_Witness ==
  /\ trace.validation = "rejected"
  /\ IsJsonObject(requestBody)
  /\ ~Has(requestBody, "phone")
  /\ DetailFields = {"fullName", "phone", "watchModelId", "totalPrice"}
  /\ response.body.details[1].field = "fullName"
  /\ response.body.error = "name too short"

\* what the checkout form does to the phone before it posts the order
StripWhitespace(s) == SelectSeq(s, LAMBDA ch : ch \notin Whitespace)
NormalisePhone(s) ==
  LET stripped == StripWhitespace(s)
  IN IF Len(stripped) >= 4 /\ SubSeq(stripped, 1, 4) = <<"+", "2", "1", "3">>
     THEN <<"0">> \o SubSeq(stripped, 5, Len(stripped))
     ELSE stripped

\* C19: the validator normalises the phone before matching (whitespace
\* stripped, a leading +213 mapped to 0): a body is accepted exactly when
\* its normalised phone matches the mobile pattern (other keys being
\* valid), and the ValidatedOrder carries the normalised phone, so
\* "+213555123456" and "0555123456" yield the same phone and "0455123456"
\* is rejected.
C19_PhoneNormalisedBeforeMatching ==
  (Validated /\ IsJsonObject(requestBody) /\ Has(requestBody, "phone"))
    => LET normalised == NormalisePhone(requestBody.phone)
       IN /\ trace.validation = "accepted"
               => orderData.phone = normalised
          /\ OffendingKeys(requestBody) \ {"phone"} = {}
               => (trace.validation = "accepted"
                     <=> MatchesAlgerianPhone(normalised))

\* C20: every ValidatedOrder has a fullName of 2 to 100 characters after
\* trimming, and a body whose fullName trims to fewer than 2 characters is
\* rejected.
C20_FullNameLengthAfterTrim ==
  /\ trace.validation = "accepted"
       => Len(Trim(orderData.fullName)) \in NameMin..NameMax
  /\ (Validated /\ IsJsonObject(requestBody) /\ Has(requestBody, "fullName")
      /\ Len(Trim(requestBody.fullName)) < NameMin)
       => trace.validation = "rejected"

OtherKeysValid(body, keys) == OffendingKeys(body) \ keys = {}

\* C21: the validator accepts watchModelId exactly when it is an integer in
\* 1..10 and totalPrice exactly when it is greater than 0 and at most
\* 1,000,000: with every other key valid, a body is accepted exactly when
\* both hold, and a body in which either fails is rejected with an issue on
\* that key.
C21_NumericBounds ==
  (Validated /\ IsJsonObject(requestBody))
    => LET hasModel == Has(requestBody, "watchModelId")
           hasPrice == Has(requestBody, "totalPrice")
           modelOk == /\ hasModel
                      /\ Tenths(requestBody) = 0
                      /\ requestBody.watchModelId \in 1..10
           priceOk == /\ hasPrice
                      /\ requestBody.totalPrice > 0
                      /\ requestBody.totalPrice <= 1000000
       IN /\ OtherKeysValid(requestBody, {"watchModelId", "totalPrice"})
               => (trace.validation = "accepted" <=> (modelOk /\ priceOk))
          /\ ~modelOk => /\ trace.validation = "rejected"
                         /\ "watchModelId" \in DetailFields
          /\ ~priceOk => /\ trace.validation = "rejected"
                         /\ "totalPrice" \in DetailFields
          /\ (trace.validation = "rejected" /\ modelOk)
               => "watchModelId" \notin DetailFields
          /\ (trace.validation = "rejected" /\ priceOk)
               => "totalPrice" \notin DetailFields

\* C21 witness: watchModelId 3.5 with the ceiling price is rejected on
\* watchModelId alone
C21_Witness ==
  /\ trace.validation = "rejected"
  /\ IsJsonObject(requestBody)
  /\ Has(requestBody, "watchModelId")
  /\ requestBody.watchModelId = 3
  /\ Tenths(requestBody) = 5
  /\ Has(requestBody, "totalPrice")
  /\ requestBody.totalPrice = 1000000
  /\ DetailFields = {"watchModelId"}

\* the row a successful saveOrder of the current request reported
SavedRow == ledger[sheetResult.value.rowNumber]
Mispriced(body) == body.totalPrice # calculateTotal(body.deliveryOption)

\* C22: calculateTotal is BASE_PRICE plus getDeliveryCost for office and
\* home (2100 and 2400); the server does not compare totalPrice with it: a
\* submission whose totalPrice differs is accepted like one whose totalPrice
\* agrees, the ValidatedOrder carries the totalPrice as posted, and the row
\* saved for it holds that totalPrice.
C22_PriceTrusted ==
  /\ calculateTotal("office") = BASE_PRICE + getDeliveryCost("office")
  /\ calculateTotal("home") = BASE_PRICE + getDeliveryCost("home")
  /\ calculateTotal("office") = 2100
  /\ calculateTotal("home") = 2400
  /\ requestBody \in ValidBodies => trace.validation = "accepted"
  /\ trace.validation = "accepted"
       => /\ orderData.totalPrice = requestBody.totalPrice
          /\ Succeeded(sheetResult)
               => SavedRow.L = Num(requestBody.totalPrice)

C22_Witness ==
  /\ requestBody = MispricedBody
  /\ Mispriced(requestBody)
  /\ Succeeded(sheetResult)
  /\ SavedRow.A = Str(T2)
  /\ SavedRow.L = Num(2100)
  /\ Aggregated
  /\ response.status = 200

\* C23: the optional keys survive validation: for a submission carrying
\* quantity q and modelNumber m the ValidatedOrder carries q and m, and the
\* row saved for it holds q in Quantity and m in Model Number; Quantity is
\* the default 1 only when the submission omitted quantity.
C23_OptionalFieldsSurvive ==
  (trace.validation = "accepted"
   /\ Has(requestBody, "quantity") /\ Has(requestBody, "modelNumber"))
    => /\ Has(orderData, "quantity")
       /\ Has(orderData, "modelNumber")
       /\ orderData.quantity = requestBody.quantity
       /\ orderData.modelNumber = requestBody.modelNumber
       /\ Succeeded(sheetResult)
            => /\ SavedRow.J = Num(requestBody.quantity)
               /\ SavedRow.I = Str(requestBody.modelNumber)

\* a step in which the callback of saveOrder runs once
SheetAttemptStep ==
  /\ pc = "awaiting"
  /\ sheetRun.pc = "calling"
  /\ sheetRun'.calls = sheetRun.calls + 1

\* C24: header creation is best-effort: every attempt of saveOrder that has
\* a client issues the append, whatever the emptiness read and the header
\* write did; the attempt fails only on the append, never on header
\* creation; an attempt whose append succeeds returns even when the sheet
\* got no header.
C24_HeaderCreationBestEffort ==
  [][(SheetAttemptStep /\ env.GOOGLE_CREDS) =>
       /\ trace'.ledgerReads = trace.ledgerReads + 1
       /\ trace'.appends = trace.appends + 1
       /\ \/ /\ sheetRun'.pc = "returned"
             /\ Len(ledger') > Len(ledger)
             /\ ledger'[Len(ledger')] = formatOrderRow(orderData)
          \/ /\ sheetRun'.pc \in {"waiting", "thrown"}
             /\ sheetRun'.lastError = "append failed"]_vars

\* C24 witness: the first attempt on an empty sheet returned although the
\* header was not created (row 1 is the order); the header write had been
\* issued
C24_Witness ==
  /\ sheetRun.pc = "returned"
  /\ sheetRun.calls = 1
  /\ Len(ledger) = 1
  /\ IsOrderRow(ledger[1])
  /\ trace.headerWrites = 1
  /\ trace.appends = 1
  /\ Succeeded(sheetResult)

InFlight == pc \in {"checkDuplicate", "dispatch", "awaiting"}
SettledFor(res, run) ==
  /\ res.status = "fulfilled"
  /\ \/ res.value.success /\ run.pc = "returned"
     \/ ~res.value.success /\ run.pc = "thrown" /\ run.calls = 4
     \/ run.pc = "idle"

ThrownAfterFullSchedule(r) ==
  r.pc = "thrown" => (r.calls = 4 /\ r.waits = BackoffSchedule)

\* C26: withRetry does not classify errors: a frame throws only after four
\* calls and the full backoff schedule whatever the error was; with the
\* SMTP or the Google credentials missing every attempt fails with that
\* configuration error, the frame keeps retrying, and the integration
\* reports failure only once the frame has thrown.
C26_NoErrorClassification ==
  /\ ThrownAfterFullSchedule(sheetRun)
  /\ ThrownAfterFullSchedule(emailRun)
  /\ (~env.SMTP_CREDS /\ emailRun.calls > 0)
       => /\ emailRun.lastError = "missing smtp configuration"
          /\ emailRun.pc \in {"waiting", "calling", "thrown"}
          /\ emailRun.pc # "thrown" => emailResult = Pending
          /\ emailRun.pc = "thrown"
               => emailResult =
                    Fulfilled([success |-> FALSE, error |-> emailRun.lastError])
  /\ (~env.GOOGLE_CREDS /\ sheetRun.calls > 0)
       => /\ sheetRun.lastError = "missing google credentials"
          /\ sheetRun.pc \in {"waiting", "calling", "thrown"}
          /\ sheetRun.pc # "thrown" => sheetResult = Pending
          /\ sheetRun.pc = "thrown"
               => sheetResult =
                    Fulfilled([success |-> FALSE, error |-> sheetRun.lastError])

\* C26 witness: both integrations lack their credentials and have reported
\* failure after four calls each
C26_Witness ==
  /\ ~env.SMTP_CREDS /\ ~env.GOOGLE_CREDS
  /\ emailRun.pc = "thrown" /\ emailRun.calls = 4
  /\ emailRun.waits = BackoffSchedule
  /\ sheetRun.pc = "thrown" /\ sheetRun.calls = 4
  /\ sheetRun.waits = BackoffSchedule
  /\ trace.verifies = 0 /\ trace.appends = 0

\* the order rows of the sheet, top to bottom
OrderRows(led) == SelectSeq(led, IsOrderRow)

\* C27: one call of saveOrder changes the order rows of the ledger by
\* exactly one appended row when it returns success = true and not at all
\* when it returns success = false: of the attempts of a call, each one
\* that fails leaves the order rows as they were and the one that returns
\* appends the order's row to them.
C27_OneRowPerSuccessfulCall ==
  [][SheetAttemptStep =>
       OrderRows(ledger') =
         (IF sheetRun'.pc = "returned"
          THEN Append(OrderRows(ledger), formatOrderRow(orderData))
          ELSE OrderRows(ledger))]_vars

\* the n-th request carries token t and its notification email has been sent
EmailSentFor(n, t) ==
  /\ served = n
  /\ orderData.clientRequestId = t
  /\ Succeeded(emailResult)

\* C28: across non-overlapping submissions carrying the same
\* clientRequestId the notification email is sent at most once: once the
\* email of a request has been sent, no later request with the same token
\* sends one.
C28_OneEmailPerToken ==
  \A t \in {T1, T2} : \A n \in 1..MaxRequests :
    [](EmailSentFor(n, t)
         => [](\A m \in 1..MaxRequests : m > n => ~EmailSentFor(m, t)))

\* the trimmed column-A cells of the order rows, whatever row they are in
OrderTokens(led) == {Trim(led[i].A.str) : i \in OrderRowIndexes(led)}

\* the state right after checkDuplicateOrder returned: nothing has written
\* to the ledger since its read
JustChecked == pc = "dispatch" \/ (Responded /\ trace.duplicate)

\* C29: when its read of the ledger succeeds, checkDuplicateOrder returns
\* true exactly when the token is the trimmed column-A cell of some order
\* row of the ledger, whatever row that order is in.
C29_DuplicateIffTokenStored ==
  (trace.dupRead = "read" /\ JustChecked)
    => (trace.duplicate <=> orderData.clientRequestId \in OrderTokens(ledger))

Row1Empty(led) == led = <<>>

\* C30: createHeadersIfNeeded issues the header write only in states where
\* row 1 of the ledger is empty, also when the emptiness read fails.
C30_HeaderWriteOnlyOnEmptyRow1 ==
  [][(SheetAttemptStep /\ trace'.headerWrites = trace.headerWrites + 1)
       => Row1Empty(ledger)]_vars

====
